---------------------------- MODULE Spec2Model ----------------------------
(***************************************************************************)
(* Model of convert_gprof_csv_to_sqlite.py: the header normaliser, the     *)
(* type inferencer, the row classifier with its hierarchy tracker, value   *)
(* coercion, and the batched load into the SQLite table.                   *)
(*                                                                         *)
(* A Python str is a sequence of one-character strings, so that strip,     *)
(* the regular expressions and the f-strings are computed and not assumed. *)
(* A Python int is its canonical decimal numeral (Python ints are          *)
(* unbounded; SQLite INTEGER is 64 bit, and the two meet at the bind).     *)
(***************************************************************************)
EXTENDS Integers, Sequences, FiniteSets, TLC

\* ------------------------------------------------------------------ bounds
\* Most data rows in an input file.
MaxRows == 4
\* Largest --batch-size tried.
MaxBatch == 2
\* Most raw header cells given to the normaliser.
MaxHeaders == 3
\* Most data rows in a file whose header is not the two Index columns.
MaxRowsTyped == 1

\* --------------------------------------------------------------- characters
Digits == {"0", "1", "2", "3", "4", "5", "6", "7", "8", "9"}

LowerLetters == {"a", "b", "c", "d", "e", "f", "g", "h", "i", "j", "k", "l", "m",
                 "n", "o", "p", "q", "r", "s", "t", "u", "v", "w", "x", "y", "z"}

\* str.strip() and float() drop these at both ends.
Whitespace == {" ", "\t", "\n", "\r"}

DigitVal(c) ==
  CASE c = "0" -> 0 [] c = "1" -> 1 [] c = "2" -> 2 [] c = "3" -> 3 [] c = "4" -> 4
    [] c = "5" -> 5 [] c = "6" -> 6 [] c = "7" -> 7 [] c = "8" -> 8 [] OTHER -> 9

DigitChar(d) ==
  CASE d = 0 -> "0" [] d = 1 -> "1" [] d = 2 -> "2" [] d = 3 -> "3" [] d = 4 -> "4"
    [] d = 5 -> "5" [] d = 6 -> "6" [] d = 7 -> "7" [] d = 8 -> "8" [] OTHER -> "9"

\* str.lower() on one character (ASCII letters; every other character is itself).
LowerChar(c) ==
  CASE c = "A" -> "a" [] c = "B" -> "b" [] c = "C" -> "c" [] c = "D" -> "d"
    [] c = "E" -> "e" [] c = "F" -> "f" [] c = "G" -> "g" [] c = "H" -> "h"
    [] c = "I" -> "i" [] c = "J" -> "j" [] c = "K" -> "k" [] c = "L" -> "l"
    [] c = "M" -> "m" [] c = "N" -> "n" [] c = "O" -> "o" [] c = "P" -> "p"
    [] c = "Q" -> "q" [] c = "R" -> "r" [] c = "S" -> "s" [] c = "T" -> "t"
    [] c = "U" -> "u" [] c = "V" -> "v" [] c = "W" -> "w" [] c = "X" -> "x"
    [] c = "Y" -> "y" [] c = "Z" -> "z" [] OTHER -> c

Lower(s) == [i \in 1..Len(s) |-> LowerChar(s[i])]

Range(s) == {s[i] : i \in 1..Len(s)}

\* s[i..] (empty when i is past the end).
Drop(s, i) == SubSeq(s, i, Len(s))

RECURSIVE LStrip(_, _)
LStrip(s, chars) ==
  IF s # <<>> /\ Head(s) \in chars THEN LStrip(Tail(s), chars) ELSE s

RECURSIVE RStrip(_, _)
RStrip(s, chars) ==
  IF s # <<>> /\ s[Len(s)] \in chars THEN RStrip(SubSeq(s, 1, Len(s) - 1), chars) ELSE s

\* str.strip() / str.strip(chars).
Strip(s) == RStrip(LStrip(s, Whitespace), Whitespace)

StripChars(s, chars) == RStrip(LStrip(s, chars), chars)

\* sub in s (Python's `sub in s`).
Contains(s, sub) ==
  \E i \in 1..(Len(s) - Len(sub) + 1) : SubSeq(s, i, i + Len(sub) - 1) = sub

\* f"{n}" for n >= 0.
RECURSIVE IntToStr(_)
IntToStr(n) ==
  IF n < 10 THEN <<DigitChar(n)>> ELSE Append(IntToStr(n \div 10), DigitChar(n % 10))

\* int(digits): the canonical numeral, leading zeros dropped.
PyInt(digits) ==
  LET t == LStrip(digits, {"0"}) IN IF t = <<>> THEN <<"0">> ELSE t


\* ------------------------------------------------------- Column Normalizer
\* f"col_{index+1}"
ColPlaceholder(index) == <<"c", "o", "l", "_">> \o IntToStr(index + 1)

\* name.replace(" ", "_") followed by re.sub(r"[^a-z0-9_]", "_", name).
ReplaceInvalid(name) ==
  [i \in 1..Len(name) |->
     IF name[i] \in LowerLetters \cup Digits \cup {"_"} THEN name[i] ELSE "_"]

\* if re.match(r"^[0-9]", name): name = f"c_{name}"
PrefixDigit(name) ==
  IF name # <<>> /\ Head(name) \in Digits THEN <<"c", "_">> \o name ELSE name

\* re.sub(r"_+", "_", name)
RECURSIVE CollapseUnderscores(_)
CollapseUnderscores(name) ==
  IF Len(name) < 2 THEN name
  ELSE IF name[1] = "_" /\ name[2] = "_" THEN CollapseUnderscores(Tail(name))
  ELSE <<Head(name)>> \o CollapseUnderscores(Tail(name))

\* The loop of lines 28-32 with its test against `used` left out after the
\* first suffix.
RECURSIVE UniquifyOnce(_, _, _, _)
UniquifyOnce(base, name, suffix, used) ==
  IF name \in used /\ suffix = 1
  THEN UniquifyOnce(base, base \o <<"_">> \o IntToStr(suffix), suffix + 1, used)
  ELSE name

\* while name in used: name = f"{base}_{suffix}"; suffix += 1
RECURSIVE Uniquify(_, _, _, _)
Uniquify(base, name, suffix, used) ==
  IF name \in used
  THEN Uniquify(base, base \o <<"_">> \o IntToStr(suffix), suffix + 1, used)
  ELSE name

\* sanitize_column up to the uniqueness loop (lines 12-26).
Cleaned(name, index) ==
  LET stripped == Strip(name)
      nonempty == IF stripped = <<>> THEN ColPlaceholder(index) ELSE stripped
      valid    == ReplaceInvalid(Lower(nonempty))
      prefixed == PrefixDigit(valid)
      trimmed  == StripChars(CollapseUnderscores(prefixed), {"_"})
  IN  IF trimmed = <<>> THEN ColPlaceholder(index) ELSE trimmed

\* sanitize_column: the identifier returned; the caller adds it to `used`.
sanitize_column(name, used, index) ==
  LET base == Cleaned(name, index) IN Uniquify(base, base, 1, used)

\* [sanitize_column(h, used, i) for i, h in enumerate(raw_headers)]
RECURSIVE SanitizeFrom(_, _, _, _)
SanitizeFrom(raw_headers, i, used, acc) ==
  IF i >= Len(raw_headers) THEN acc
  ELSE LET h == sanitize_column(raw_headers[i + 1], used, i)
       IN  SanitizeFrom(raw_headers, i + 1, used \cup {h}, Append(acc, h))

\* infer_headers on the first row the reader yields (<<>> when there is none).
infer_headers(raw_headers) == SanitizeFrom(raw_headers, 0, {}, <<>>)

\* --------------------------------------------------------- Type Inferencer
\* "cpu_time", "time_self", "time_children", "time_total", "% cpu"
CpuTimeStems ==
  { <<"c", "p", "u", "_", "t", "i", "m", "e">>,
    <<"t", "i", "m", "e", "_", "s", "e", "l", "f">>,
    <<"t", "i", "m", "e", "_", "c", "h", "i", "l", "d", "r", "e", "n">>,
    <<"t", "i", "m", "e", "_", "t", "o", "t", "a", "l">>,
    <<"%", " ", "c", "p", "u">> }

IndexStem == <<"i", "n", "d", "e", "x">>

\* The two tests of infer_column_types in the other order.
InferTypeIndexFirst(h) ==
  LET lower == Lower(h)
  IN  IF Contains(lower, IndexStem) THEN "INTEGER"
      ELSE IF \E x \in CpuTimeStems : Contains(lower, x) THEN "REAL"
      ELSE "TEXT"

\* The if / elif / else of infer_column_types for one header.
InferType(h) ==
  LET lower == Lower(h)
  IN  IF \E x \in CpuTimeStems : Contains(lower, x) THEN "REAL"
      ELSE IF Contains(lower, IndexStem) THEN "INTEGER"
      ELSE "TEXT"

\* infer_column_types: the dict, keyed by header.
infer_column_types(hs) == [h \in Range(hs) |-> InferType(h)]

\* column_types.get(h, "TEXT")
TypeOf(column_types, h) ==
  IF h \in DOMAIN column_types THEN column_types[h] ELSE "TEXT"

\* ------------------------------------------------------------------ values
\* What a cell of the table holds: None, an int (its numeral in s), a float
\* (sign and decimal digits in s, the power of ten in e) or a str.
Null == [t |-> "null", s |-> <<>>, e |-> 0]

IntVal(numeral) == [t |-> "int", s |-> numeral, e |-> 0]

RealVal(digits, exp) == [t |-> "real", s |-> digits, e |-> exp]

TextVal(chars) == [t |-> "text", s |-> chars, e |-> 0]

\* ------------------------------------------------------ bracketed indexes
\* Length of the run of digits that starts at s[i].
RECURSIVE DigitRun(_, _)
DigitRun(s, i) ==
  IF i <= Len(s) /\ s[i] \in Digits THEN 1 + DigitRun(s, i + 1) ELSE 0

\* r'\[(\d+)\]' matches at position i of s.
BracketAt(s, i) ==
  /\ s[i] = "["
  /\ DigitRun(s, i + 1) >= 1
  /\ i + 1 + DigitRun(s, i + 1) <= Len(s)
  /\ s[i + 1 + DigitRun(s, i + 1)] = "]"

\* extract_index_number: re.search takes the leftmost match, int() its digits.
extract_index_number(value) ==
  LET hits == {i \in 1..Len(value) : BracketAt(value, i)}
  IN  IF hits = {} THEN Null
      ELSE LET i == CHOOSE k \in hits : \A j \in hits : k <= j
           IN  IntVal(PyInt(SubSeq(value, i + 1, i + DigitRun(value, i + 1))))

\* re.match(r'^\[\d+\]$', s) on a stripped field.
IsBracketIndex(s) ==
  /\ Len(s) >= 3
  /\ s[1] = "["
  /\ s[Len(s)] = "]"
  /\ \A i \in 2..(Len(s) - 1) : s[i] \in Digits

\* ---------------------------------------------------------- Row Classifier
\* is_empty_row: all(not field or not field.strip() for field in row)
is_empty_row(row) == \A i \in 1..Len(row) : Strip(row[i]) = <<>>

\* is_parent_row
is_parent_row(row) ==
  /\ Len(row) >= 2
  /\ IsBracketIndex(Strip(row[1]))
  /\ IsBracketIndex(Strip(row[Len(row)]))

\* Lines 107-110: pad the row with "" or trim it to len(headers).
AlignRow(row, n) == [i \in 1..n |-> IF i <= Len(row) THEN row[i] ELSE <<>>]

\* --------------------------------------------------------------- float(val)
\* First position of one of `chars` in s, 0 when there is none.
RECURSIVE FirstOf(_, _, _)
FirstOf(s, chars, i) ==
  IF i > Len(s) THEN 0 ELSE IF s[i] \in chars THEN i ELSE FirstOf(s, chars, i + 1)

\* A digit group of a float literal: digits, single underscores between them.
IsDigitPart(s) ==
  /\ s # <<>>
  /\ s[1] \in Digits
  /\ s[Len(s)] \in Digits
  /\ \A i \in 1..Len(s) : s[i] \in Digits \cup {"_"}
  /\ \A i \in 1..(Len(s) - 1) : ~(s[i] = "_" /\ s[i + 1] = "_")

RECURSIVE OnlyDigits(_)
OnlyDigits(s) ==
  IF s = <<>> THEN <<>>
  ELSE IF Head(s) \in Digits THEN <<Head(s)>> \o OnlyDigits(Tail(s))
  ELSE OnlyDigits(Tail(s))

\* The value of a short numeral (an exponent).
RECURSIVE NumeralValue(_)
NumeralValue(digits) ==
  IF digits = <<>> THEN 0
  ELSE 10 * NumeralValue(SubSeq(digits, 1, Len(digits) - 1)) + DigitVal(digits[Len(digits)])

\* digits * 10^exp with no trailing zero left in the digits.
RECURSIVE NormalReal(_, _)
NormalReal(digits, exp) ==
  IF digits = <<"0">> THEN RealVal(digits, 0)
  ELSE IF digits[Len(digits)] = "0"
       THEN NormalReal(SubSeq(digits, 1, Len(digits) - 1), exp + 1)
       ELSE RealVal(digits, exp)

Signed(neg, r) == IF neg THEN RealVal(<<"-">> \o r.s, r.e) ELSE r

\* float(val) inside the try of lines 130-133: the number, or Null for a
\* ValueError.  The value is the exact decimal; rounding to binary64 and its
\* range are not modelled.
PyFloat(val) ==
  LET t     == Strip(val)
      neg   == t # <<>> /\ Head(t) = "-"
      body  == IF t # <<>> /\ Head(t) \in {"+", "-"} THEN Tail(t) ELSE t
      low   == Lower(body)
      epos  == FirstOf(low, {"e"}, 1)
      mant  == IF epos = 0 THEN low ELSE SubSeq(low, 1, epos - 1)
      expo  == IF epos = 0 THEN <<>> ELSE Drop(low, epos + 1)
      eneg  == expo # <<>> /\ Head(expo) = "-"
      edig  == IF expo # <<>> /\ Head(expo) \in {"+", "-"} THEN Tail(expo) ELSE expo
      ppos  == FirstOf(mant, {"."}, 1)
      ip    == IF ppos = 0 THEN mant ELSE SubSeq(mant, 1, ppos - 1)
      fp    == IF ppos = 0 THEN <<>> ELSE Drop(mant, ppos + 1)
      mantOk == IF ppos = 0 THEN IsDigitPart(ip)
                ELSE /\ ip = <<>> \/ IsDigitPart(ip)
                     /\ fp = <<>> \/ IsDigitPart(fp)
                     /\ ~(ip = <<>> /\ fp = <<>>)
      expOk == epos = 0 \/ IsDigitPart(edig)
      ev    == IF epos = 0 THEN 0
               ELSE IF eneg THEN 0 - NumeralValue(OnlyDigits(edig))
               ELSE NumeralValue(OnlyDigits(edig))
  IN  IF low \in {<<"i", "n", "f">>, <<"i", "n", "f", "i", "n", "i", "t", "y">>}
        THEN Signed(neg, RealVal(<<"i", "n", "f">>, 0))
      ELSE IF low = <<"n", "a", "n">> THEN RealVal(<<"n", "a", "n">>, 0)
      ELSE IF mantOk /\ expOk
        THEN Signed(neg, NormalReal(PyInt(OnlyDigits(ip) \o OnlyDigits(fp)),
                                    ev - Len(OnlyDigits(fp))))
      ELSE Null

\* ---------------------------------------------------------- Value Coercion
\* Lines 126-139: one field under its column's type.
ConvertValue(val, col_type) ==
  IF val = <<>> \/ Strip(val) = <<>> THEN Null
  ELSE IF col_type = "REAL" THEN PyFloat(val)
  ELSE IF col_type = "INTEGER" THEN extract_index_number(val)
  ELSE TextVal(val)

\* for i, (h, val) in enumerate(zip(headers, row)): the converted row.
ConvertRow(headers, column_types, row) ==
  [i \in 1..Len(headers) |-> ConvertValue(row[i], TypeOf(column_types, headers[i]))]

\* ----------------------------------------------------------- SQLite binding
\* 2^63 - 1, the largest value an INTEGER parameter can carry.
MaxSqliteInt ==
  <<"9", "2", "2", "3", "3", "7", "2", "0", "3", "6", "8", "5", "4", "7", "7",
    "5", "8", "0", "7">>

\* a <= b for canonical numerals of the same length.
RECURSIVE NumeralLeq(_, _)
NumeralLeq(a, b) ==
  IF a = <<>> THEN TRUE
  ELSE IF DigitVal(Head(a)) < DigitVal(Head(b)) THEN TRUE
  ELSE IF DigitVal(Head(a)) > DigitVal(Head(b)) THEN FALSE
  ELSE NumeralLeq(Tail(a), Tail(b))

\* executemany binds each value: an int past 64 bits raises OverflowError.
Bindable(v) ==
  v.t = "int" =>
    \/ Len(v.s) < Len(MaxSqliteInt)
    \/ Len(v.s) = Len(MaxSqliteInt) /\ NumeralLeq(v.s, MaxSqliteInt)

BatchBindable(batch) ==
  \A k \in 1..Len(batch) : \A i \in 1..Len(batch[k]) : Bindable(batch[k][i])

\* ------------------------------------------------------------------ inputs
cIndex == <<"I", "n", "d", "e", "x">>

cName == <<"N", "a", "m", "e">>

cCpuTotal == <<"C", "P", "U", " ", "T", "i", "m", "e", ":", "T", "o", "t", "a", "l">>

cParentIndex == <<"p", "a", "r", "e", "n", "t", "_", "i", "n", "d", "e", "x">>

\* name and cpu_time_total, as the CREATE INDEX statements spell them.
cName_lower == <<"n", "a", "m", "e">>

cCpuTotal_lower ==
  <<"c", "p", "u", "_", "t", "i", "m", "e", "_", "t", "o", "t", "a", "l">>

\* Name;CPU Time:Total: a name column, a total-time column, no index column.
hNameTotal == <<cName, cCpuTotal>>

\* Index;parent_index: a header that is the injected column's own name.
hParentIndex == <<cIndex, cParentIndex>>

\* The header rows tried: no header row at all, and gprof-cc's two Index
\* columns (normalised to index and index_1, both INTEGER), and the two above.
HeaderPool == { <<>>, <<cIndex, cIndex>>, hNameTotal, hParentIndex }

fB1 == <<"[", "1", "]">>

fB2 == <<"[", "2", "]">>

fB3 == <<"[", "3", "]">>

fX == <<"x">>

\* [9223372036854775808], one past the largest SQLite INTEGER.
fBig == <<"[">> \o <<"9", "2", "2", "3", "3", "7", "2", "0", "3", "6", "8", "5", "4",
                     "7", "7", "5", "8", "0", "8">> \o <<"]">>

\* The data rows tried, as csv.reader yields them: a blank line, two Parent
\* rows (one with padding blanks in a field), a Child row, two rows longer than
\* the header, and a short row whose index does not fit 64 bits.
RowPool ==
  { <<>>,
    <<fB1, fB1>>,
    <<fB2, <<" ">> \o fB2>>,
    << <<>>, fB3>>,
    <<fB1, fX, fB1>>,
    << <<" ">>, <<>>, fX>>,
    <<fBig>> }

Files == UNION { [1..n -> RowPool] : n \in 0..MaxRows }

\* ------------------------------------------------------------------- state
VARIABLES
  raw_header,            \* the first row of the input file (<<>>: no row)
  rows,                  \* the data rows of the input file
  batch_size,            \* --batch-size
  pc,                    \* where main is: start, rows, index, done, exit, failed
  headers,               \* infer_headers' result
  column_types,          \* infer_column_types' result
  schema,                \* the table's declared columns (<<>>: no table)
  pos,                   \* data rows read so far
  batch,                 \* insert_rows' batch list
  table,                 \* the committed rows of the table
  count,                 \* insert_rows' count
  current_parent_index,  \* the hierarchy state
  classified,            \* the branch taken for each row read
  error,                 \* the exception that ended main ("" when none)
  indexes,               \* the indexes created
  total,                 \* main's total (-1 before insert_rows returns)
  run,                   \* 1: the first load, 2: the load repeated
  prev_table,            \* the table the first load left
  prev_batch_size,       \* the first load's batch size
  path_exists,           \* os.path.exists(csv_path)
  encoding_known,        \* --encoding names a codec Python has
  db_file,               \* a file exists at db_path
  flushes,               \* executemany calls made
  attempted,             \* the CREATE INDEX statements executed
  index_errors,          \* the CREATE INDEX statements that raised
  raw_headers,           \* normaliser alone: the raw header list
  normalized,            \* normaliser alone: infer_headers(raw_headers)
  renormalized,          \* normaliser alone: infer_headers(normalized)
  inferred,              \* normaliser alone: infer_column_types(normalized)
  npc                    \* normaliser alone: idle, raw, normalized, typed, again

loadVars == <<raw_header, rows, batch_size, pc, headers, column_types, schema, pos,
              batch, table, count, current_parent_index, classified, error,
              indexes, total, run, prev_table, prev_batch_size, path_exists,
              encoding_known, db_file, flushes, attempted, index_errors>>

normVars == <<raw_headers, normalized, renormalized, inferred, npc>>

vars == <<loadVars, normVars>>

LoadIdle ==
  /\ raw_header = <<>> /\ rows = <<>> /\ batch_size = 1 /\ pc = "idle"
  /\ headers = <<>> /\ column_types = <<>> /\ schema = <<>> /\ pos = 0
  /\ batch = <<>> /\ table = <<>> /\ count = 0 /\ current_parent_index = Null
  /\ classified = <<>> /\ error = "" /\ indexes = {} /\ total = -1
  /\ run = 1 /\ prev_table = <<>> /\ prev_batch_size = 0
  /\ path_exists = TRUE /\ encoding_known = TRUE /\ db_file = FALSE
  /\ flushes = 0 /\ attempted = {} /\ index_errors = {}

NormIdle ==
  /\ raw_headers = <<>> /\ normalized = <<>> /\ renormalized = <<>>
  /\ inferred = <<>> /\ npc = "idle"

\* -------------------------------------------------------------------- main
\* create_table: one column per header with its type, then parent_index.
TableColumns(hs, types) ==
  [i \in 1..(Len(hs) + 1) |->
     IF i <= Len(hs) THEN <<hs[i], TypeOf(types, hs[i])>>
     ELSE <<cParentIndex, "INTEGER">>]

\* SQLite refuses a CREATE TABLE that names a column twice.
DistinctColumns(cols) ==
  \A i, j \in 1..Len(cols) : i # j => cols[i][1] # cols[j][1]

Init ==
  /\ path_exists \in BOOLEAN
  /\ encoding_known \in BOOLEAN
  /\ raw_header \in HeaderPool
  /\ rows \in Files
  /\ ~path_exists => (encoding_known /\ raw_header = <<>>)
  /\ (~encoding_known \/ raw_header \in {<<>>, hParentIndex}) => rows = <<>>
  /\ raw_header = hNameTotal => Len(rows) <= MaxRowsTyped
  /\ batch_size \in 1..MaxBatch
  /\ pc = "start"
  /\ headers = <<>> /\ column_types = <<>> /\ schema = <<>> /\ pos = 0
  /\ batch = <<>> /\ table = <<>> /\ count = 0 /\ current_parent_index = Null
  /\ classified = <<>> /\ error = "" /\ indexes = {} /\ total = -1
  /\ run = 1 /\ prev_table = <<>> /\ prev_batch_size = 0
  /\ db_file = FALSE /\ flushes = 0 /\ attempted = {} /\ index_errors = {}
  /\ NormIdle

\* main, lines 174-193: test the input path, connect (which creates the
\* database file), open the input, read and normalise the header, infer the
\* types, create the table.  The first read decodes the first block of the
\* file and may raise UnicodeDecodeError.
Start ==
  /\ pc = "start"
  /\ \E undecodable \in BOOLEAN :
       LET hs    == infer_headers(raw_header)
           types == infer_column_types(hs)
           cols  == TableColumns(hs, types)
       IN  IF ~path_exists
           THEN /\ ~undecodable
                /\ pc' = "exit"
                /\ error' = "InputNotFound"
                /\ UNCHANGED <<headers, column_types, schema, db_file>>
           ELSE IF ~encoding_known
           THEN /\ ~undecodable
                /\ pc' = "failed"
                /\ error' = "LookupError"
                /\ db_file' = TRUE
                /\ UNCHANGED <<headers, column_types, schema>>
           ELSE IF undecodable
           THEN /\ pc' = "failed"
                /\ error' = "UnicodeDecodeError"
                /\ db_file' = TRUE
                /\ UNCHANGED <<headers, column_types, schema>>
           ELSE IF hs = <<>>
           THEN /\ pc' = "exit"
                /\ error' = "NoHeaders"
                /\ db_file' = TRUE
                /\ UNCHANGED <<headers, column_types, schema>>
           ELSE IF ~DistinctColumns(cols)
           THEN /\ pc' = "failed"
                /\ error' = "OperationalError"
                /\ db_file' = TRUE
                /\ headers' = hs
                /\ column_types' = types
                /\ UNCHANGED schema
           ELSE /\ pc' = "rows"
                /\ db_file' = TRUE
                /\ headers' = hs
                /\ column_types' = types
                /\ schema' = cols
                /\ UNCHANGED error
  /\ UNCHANGED <<raw_header, rows, batch_size, pos, batch, table, count,
                 current_parent_index, classified, indexes, total, run,
                 prev_table, prev_batch_size, path_exists, encoding_known,
                 flushes, attempted, index_errors>>
  /\ UNCHANGED normVars

\* The hierarchy state left as it is by a blank row.
KeepParent(cur) == cur

\* Line 114: current_parent_index = None
AfterSeparator(cur) == Null

\* Line 121 run for every row, its `if` of line 119 left out.
NextParentAlways(row, cur) == extract_index_number(row[Len(row)])

\* Lines 119-121: a Parent row sets the hierarchy state, any other keeps it.
NextParent(row, cur) ==
  IF is_parent_row(row) THEN extract_index_number(row[Len(row)]) ELSE cur

\* The batch flushed only once it holds more than batch_size entries.
BatchFullLate(b, size) == Len(b) > size

\* Line 150: if len(batch) >= batch_size
BatchFull(b, size) == Len(b) >= size

\* The closing flush made whatever the batch holds.
AlwaysFinalFlush(b) == TRUE

\* Line 155: if batch
NeedsFinalFlush(b) == b # <<>>

\* The batch kept after a flush (batch.clear() forgotten).
NotCleared(b) == b

\* Line 154: batch.clear()
Cleared(b) == <<>>

\* A failed flush that leaves the first row of its batch in the table.
PartlyKept(committed, b) == committed \o SubSeq(b, 1, 1)

\* Line 184: the exception leaves `with sqlite3.connect(...) as conn`, which
\* rolls the open transaction back: the table keeps the committed rows only.
RolledBack(committed, b) == committed

\* Lines 151-154 and 156-158: executemany, commit, count += len(batch), with
\* nb the batch to write and next the place main goes on from.  executemany
\* raises OverflowError for an int past 64 bits; executemany or commit may
\* raise sqlite3.DatabaseError (disk full, I/O error, locked database).
Flush(nb, next, clear) ==
  /\ flushes' = flushes + 1
  /\ \/ /\ BatchBindable(nb)
        /\ table' = table \o nb
        /\ count' = count + Len(nb)
        /\ batch' = IF clear THEN Cleared(nb) ELSE nb
        /\ pc' = next
        /\ total' = IF next = "index" THEN count + Len(nb) ELSE total
        /\ UNCHANGED error
     \/ /\ ~BatchBindable(nb)
        /\ table' = RolledBack(table, nb)
        /\ batch' = nb
        /\ pc' = "failed"
        /\ error' = "OverflowError"
        /\ UNCHANGED <<count, total>>
     \/ /\ table' = RolledBack(table, nb)
        /\ batch' = nb
        /\ pc' = "failed"
        /\ error' = "DatabaseError"
        /\ UNCHANGED <<count, total>>

\* insert_rows, one turn of the loop of lines 105-154.
ProcessRow ==
  /\ pc = "rows"
  /\ pos < Len(rows)
  /\ pos' = pos + 1
  /\ LET row == AlignRow(rows[pos + 1], Len(headers))
     IN  IF is_empty_row(row)
         THEN /\ current_parent_index' = AfterSeparator(current_parent_index)
              /\ classified' = Append(classified, "Separator")
              /\ UNCHANGED <<batch, table, count, pc, error, total, flushes>>
         ELSE LET cur   == NextParent(row, current_parent_index)
                  entry == Append(ConvertRow(headers, column_types, row),
                                  IF is_parent_row(row) THEN Null ELSE cur)
                  nb    == Append(batch, entry)
              IN  /\ current_parent_index' = cur
                  /\ classified' =
                       Append(classified, IF is_parent_row(row) THEN "Parent" ELSE "Child")
                  /\ IF BatchFull(nb, batch_size)
                     THEN Flush(nb, "rows", TRUE)
                     ELSE /\ batch' = nb
                          /\ UNCHANGED <<table, count, pc, error, total, flushes>>
  /\ UNCHANGED <<raw_header, rows, batch_size, headers, column_types, schema,
                 indexes, run, prev_table, prev_batch_size, path_exists,
                 encoding_known, db_file, attempted, index_errors>>
  /\ UNCHANGED normVars

\* insert_rows, line 105: the reader's next block of the file does not decode
\* under the encoding; UnicodeDecodeError leaves insert_rows and main.
DecodeError ==
  /\ pc = "rows"
  /\ pc' = "failed"
  /\ error' = "UnicodeDecodeError"
  /\ UNCHANGED <<raw_header, rows, batch_size, headers, column_types, schema, pos,
                 batch, table, count, current_parent_index, classified, indexes,
                 total, run, prev_table, prev_batch_size, path_exists,
                 encoding_known, db_file, flushes, attempted, index_errors>>
  /\ UNCHANGED normVars

\* insert_rows, lines 155-159: the reader is exhausted; flush what is left
\* and return count.
EndOfStream ==
  /\ pc = "rows"
  /\ pos = Len(rows)
  /\ IF NeedsFinalFlush(batch)
     THEN Flush(batch, "index", FALSE)
     ELSE /\ pc' = "index"
          /\ total' = count
          /\ UNCHANGED <<batch, table, count, error, flushes>>
  /\ UNCHANGED <<raw_header, rows, batch_size, headers, column_types, schema, pos,
                 current_parent_index, classified, indexes, run, prev_table,
                 prev_batch_size, path_exists, encoding_known, db_file,
                 attempted, index_errors>>
  /\ UNCHANGED normVars

ColumnNames == {schema[i][1] : i \in 1..Len(schema)}

\* The column each CREATE INDEX statement of lines 200-220 names.
IndexColumn(a) ==
  CASE a = "name_idx" -> cName_lower
    [] a = "index_idx" -> IndexStem
    [] a = "cpu_total_idx" -> cCpuTotal_lower
    [] OTHER -> cParentIndex

\* The order of the statements in main.
IndexOrder(a) ==
  CASE a = "name_idx" -> 1 [] a = "index_idx" -> 2 [] a = "cpu_total_idx" -> 3
    [] OTHER -> 4

\* The statements main means to execute: lines 205 and 212 leave out the
\* index and cpu_time_total ones when the header has no such column.
PlannedIndexes(hs) ==
  {"name_idx", "parent_idx"}
    \cup (IF IndexStem \in Range(hs) THEN {"index_idx"} ELSE {})
    \cup (IF cCpuTotal_lower \in Range(hs) THEN {"cpu_total_idx"} ELSE {})

\* One try block around the statements: the first to raise ends them all.
AttemptsUntilFailure(planned, failing) ==
  {a \in planned : \A b \in failing \cap planned : IndexOrder(b) >= IndexOrder(a)}

\* Each statement in a try of its own: every planned one is executed.
AttemptsMade(planned, failing) == planned

\* main, lines 196-224: the CREATE INDEX attempts and the commit.  A statement
\* on a column the table does not have raises sqlite3.OperationalError; any
\* of them may raise sqlite3.DatabaseError (disk full, I/O error); both are
\* passed over.  No transaction is open, so the commit writes nothing.
CreateIndexes ==
  /\ pc = "index"
  /\ \E failing \in SUBSET PlannedIndexes(headers) :
       /\ \A a \in PlannedIndexes(headers) :
            IndexColumn(a) \notin ColumnNames => a \in failing
       /\ attempted' = AttemptsMade(PlannedIndexes(headers), failing)
       /\ index_errors' = failing \cap attempted'
       /\ indexes' = attempted' \ failing
  /\ pc' = "done"
  /\ UNCHANGED <<raw_header, rows, batch_size, headers, column_types, schema, pos,
                 batch, table, count, current_parent_index, classified, error,
                 total, run, prev_table, prev_batch_size, path_exists,
                 encoding_known, db_file, flushes>>
  /\ UNCHANGED normVars

Next == Start \/ ProcessRow \/ DecodeError \/ EndOfStream \/ CreateIndexes

Spec == Init /\ [][Next]_vars

\* The command run again on the same file, with a batch size of its own and
\* a fresh destination.
Rerun ==
  /\ pc = "done"
  /\ run = 1
  /\ run' = 2
  /\ prev_table' = table
  /\ prev_batch_size' = batch_size
  /\ batch_size' \in 1..MaxBatch
  /\ pc' = "start"
  /\ headers' = <<>> /\ column_types' = <<>> /\ schema' = <<>> /\ pos' = 0
  /\ batch' = <<>> /\ table' = <<>> /\ count' = 0 /\ current_parent_index' = Null
  /\ classified' = <<>> /\ error' = "" /\ indexes' = {} /\ total' = -1
  /\ db_file' = FALSE /\ flushes' = 0 /\ attempted' = {} /\ index_errors' = {}
  /\ UNCHANGED <<raw_header, rows, path_exists, encoding_known>>
  /\ UNCHANGED normVars

NextRerun ==
  Start \/ ProcessRow \/ DecodeError \/ EndOfStream \/ CreateIndexes \/ Rerun

SpecRerun == Init /\ [][NextRerun]_vars

\* ------------------------------------------- the normaliser on its own
cIndex1 == <<"i", "n", "d", "e", "x", "_", "1">>

cCpuSelf == <<"C", "P", "U", " ", "T", "i", "m", "e", ":", "S", "e", "l", "f">>

cTimeSelfIndex ==
  <<"T", "i", "m", "e", "_", "S", "e", "l", "f", " ", "I", "n", "d", "e", "x">>

\* The raw header cells tried: an empty cell, a cell that normalises to
\* nothing, Index (twice in a list: a collision), index_1 (the name a
\* collision generates), names with blanks, capitals and a colon, a leading
\* digit, and a digit behind an underscore.
RawNamePool ==
  { <<>>, <<" ", "%", " ">>, cIndex, cIndex1, cCpuSelf, cTimeSelfIndex, cName,
    <<"1", "s", "t">>, <<"_", "1">> }

RawHeaderLists == UNION { [1..n -> RawNamePool] : n \in 0..MaxHeaders }

InitNormalize ==
  /\ LoadIdle
  /\ raw_headers \in RawHeaderLists
  /\ normalized = <<>> /\ renormalized = <<>> /\ inferred = <<>>
  /\ npc = "raw"

\* infer_headers on the header row.
Normalize ==
  /\ npc = "raw"
  /\ normalized' = infer_headers(raw_headers)
  /\ npc' = "normalized"
  /\ UNCHANGED <<raw_headers, renormalized, inferred>>
  /\ UNCHANGED loadVars

\* infer_column_types on the normalised header.
InferTypes ==
  /\ npc = "normalized"
  /\ inferred' = infer_column_types(normalized)
  /\ npc' = "typed"
  /\ UNCHANGED <<raw_headers, normalized, renormalized>>
  /\ UNCHANGED loadVars

\* infer_headers on its own output (same positions, a fresh `used`).
Renormalize ==
  /\ npc = "typed"
  /\ renormalized' = infer_headers(normalized)
  /\ npc' = "again"
  /\ UNCHANGED <<raw_headers, normalized, inferred>>
  /\ UNCHANGED loadVars

NextNormalize == Normalize \/ InferTypes \/ Renormalize

SpecNormalize == InitNormalize /\ [][NextNormalize]_vars

\* ------------------------------------------------------------------ claims
ParentIndexOf(entry) == entry[Len(entry)]

\* The row of the input that the k-th entry written comes from: the k-th row
\* not classified Separator.
EntryRow(k) ==
  CHOOSE i \in 1..Len(classified) :
    /\ classified[i] # "Separator"
    /\ Cardinality({j \in 1..i : classified[j] # "Separator"}) = k

\* The number of entries that the rows read so far give.
EntriesRead == Cardinality({j \in 1..Len(classified) : classified[j] # "Separator"})

\* Row i as the classifier sees it: aligned to the header's length.
Aligned(i) == AlignRow(rows[i], Len(headers))

\* The number between the brackets of a field that is [digits] with blanks
\* around it.
BracketNumber(field) ==
  LET t == Strip(field) IN IntVal(PyInt(SubSeq(t, 2, Len(t) - 1)))

\* The Parent rows before row i with no Separator row between them and row i.
OpenParents(i) ==
  {j \in 1..(i - 1) :
     /\ classified[j] = "Parent"
     /\ \A m \in (j + 1)..(i - 1) : classified[m] # "Separator"}

\* What the claim gives row i as its parent link.
ExpectedParent(i) ==
  IF classified[i] = "Parent" \/ OpenParents(i) = {} THEN Null
  ELSE LET j == CHOOSE p \in OpenParents(i) : \A q \in OpenParents(i) : q <= p
       IN  BracketNumber(Aligned(j)[Len(headers)])

\* C1: every persisted entry of a row classified Parent has parent_index
\* null, and every persisted entry of a row classified Child has the bracketed
\* number of the last field of the latest Parent row read after the latest
\* Separator row before it, or null when there is no such Parent row.  Rows
\* are classified, and their last field taken, as insert_rows does it: on the
\* row aligned to the header.
C1_ParentLinks ==
  \A k \in 1..Len(table) : ParentIndexOf(table[k]) = ExpectedParent(EntryRow(k))

\* C1, reached: Parent [1], Child, blank row, Child persisted with the parent
\* links null, 1, null.
C1_Witness ==
  /\ pc = "done"
  /\ classified = <<"Parent", "Child", "Separator", "Child">>
  /\ rows[1] = <<fB1, fB1>>
  /\ Len(table) = 3
  /\ ParentIndexOf(table[1]) = Null
  /\ ParentIndexOf(table[2]) = IntVal(<<"1">>)
  /\ ParentIndexOf(table[3]) = Null

\* C2: a data row is classified Parent exactly when the first and the last
\* field of the row as read (not padded, not truncated) each are [digits].
C2_ParentByOriginalFields ==
  \A i \in 1..Len(classified) : (classified[i] = "Parent") <=> is_parent_row(rows[i])

\* The rows of the file with a field that is not empty or blank.
NonBlankRows == {i \in 1..Len(rows) : ~is_empty_row(rows[i])}

\* C3: when insert_rows has returned, the entries persisted and the count
\* returned both are the number of data rows less the rows whose every field
\* is empty or blank.
C3_CountIsRowsLessSeparators ==
  pc \in {"index", "done"} =>
    /\ Len(table) = Cardinality(NonBlankRows)
    /\ total = Cardinality(NonBlankRows)

\* C4: the same file loaded into a fresh destination with two batch sizes
\* leaves the same table: the same entries in the same order with the same
\* parent links (both loads having completed).
C4_SameTableForAnyBatchSize ==
  (run = 2 /\ pc = "done") => table = prev_table

\* C4, reached: two completed loads with different batch sizes, of a file
\* whose table has three entries or more, one of them linked to a parent.
C4_Witness ==
  /\ run = 2
  /\ pc = "done"
  /\ batch_size # prev_batch_size
  /\ Len(table) >= 3
  /\ \E k \in 1..Len(table) : ParentIndexOf(table[k]) # Null

\* The entry the claims give row i: its fields coerced under the column
\* types, then its parent link.
ExpectedEntry(i) ==
  Append(ConvertRow(headers, column_types, Aligned(i)), ExpectedParent(i))

\* C10: when a flush (executemany or commit) fails the load ends with an
\* error, nothing more can be done by it, no index is built, and the table
\* holds the entries of the batches committed before the failing flush and
\* none of the failing batch: the table followed by the failing batch is the
\* entries of the rows read, in order.
C10_FlushFailureKeepsCommittedOnly ==
  (pc = "failed" /\ error \in {"DatabaseError", "OverflowError"}) =>
    /\ indexes = {}
    /\ batch # <<>>
    /\ Len(table) = count
    /\ Len(table) % batch_size = 0
    /\ Len(table) + Len(batch) = EntriesRead
    /\ table \o batch = [k \in 1..EntriesRead |-> ExpectedEntry(EntryRow(k))]
    /\ ~ENABLED Next

\* C10, reached: a flush fails after an earlier batch was committed, with
\* rows of the file still unread.
C10_Witness ==
  /\ pc = "failed"
  /\ error = "DatabaseError"
  /\ table # <<>>
  /\ batch # <<>>
  /\ pos < Len(rows)

\* C5: normalising a normalised header list again (same positions, a fresh
\* `used`) gives the same list.
C5_NormalizeIdempotent ==
  npc = "again" => renormalized = normalized

\* C6: the normalised list is as long as the raw list and its identifiers are
\* pairwise distinct, also when a later raw header is a suffixed name
\* generated for an earlier collision.
C6_SameLengthAndDistinct ==
  npc # "raw" =>
    /\ Len(normalized) = Len(raw_headers)
    /\ \A i, j \in 1..Len(normalized) : i # j => normalized[i] # normalized[j]

\* C6, reached: Index, Index, index_1 normalised: the third header is the
\* name the second was given, and is given a suffix of its own.
C6_Witness ==
  /\ npc = "normalized"
  /\ raw_headers = <<cIndex, cIndex, cIndex1>>
  /\ normalized = <<IndexStem, cIndex1, cIndex1 \o <<"_", "1">> >>

\* C7: every identifier returned is non-empty, is made of a-z, 0-9 and _
\* only, and does not begin with a digit.
C7_IdentifierShape ==
  npc # "raw" =>
    \A i \in 1..Len(normalized) :
      /\ normalized[i] # <<>>
      /\ Range(normalized[i]) \subseteq LowerLetters \cup Digits \cup {"_"}
      /\ Head(normalized[i]) \notin Digits

HasCpuTimeStem(h) == \E x \in CpuTimeStems : Contains(h, x)

HasIndex(h) == Contains(h, IndexStem)

\* C9: every normalised identifier gets exactly one type, from its name
\* alone: REAL when it contains a CPU-time stem (also when it contains index
\* as well), else INTEGER when it contains index, else TEXT.
C9_TypeByNameInPriorityOrder ==
  npc \in {"typed", "again"} =>
    /\ DOMAIN inferred = Range(normalized)
    /\ \A h \in Range(normalized) :
         /\ HasCpuTimeStem(h) => inferred[h] = "REAL"
         /\ (~HasCpuTimeStem(h) /\ HasIndex(h)) => inferred[h] = "INTEGER"
         /\ (~HasCpuTimeStem(h) /\ ~HasIndex(h)) => inferred[h] = "TEXT"

\* C9, reached: a header list with an identifier of each type, one of them
\* holding a CPU-time stem and index at once.
C9_Witness ==
  /\ npc = "typed"
  /\ \E h \in Range(normalized) :
       HasCpuTimeStem(h) /\ HasIndex(h) /\ inferred[h] = "REAL"
  /\ \E h \in Range(normalized) : inferred[h] = "INTEGER"
  /\ \E h \in Range(normalized) : inferred[h] = "TEXT"

\* C11: when the input path does not exist or the header row is empty the
\* command ends with a non-zero exit, and then no database file exists, no
\* table was created and no row was inserted (the file being read under an
\* encoding that Python knows and that decodes it).
C11_FailFastWritesNothing ==
  ( /\ pc # "start"
    /\ encoding_known
    /\ error # "UnicodeDecodeError"
    /\ (~path_exists \/ raw_header = <<>>) ) =>
    /\ pc \in {"exit", "failed"}
    /\ error # ""
    /\ ~db_file
    /\ schema = <<>>
    /\ table = <<>>

\* C12: when the load ends on a bad encoding (a name Python does not know, or
\* bytes that do not decode, wherever they are in the stream) no table has
\* been created and no batch has been committed.
C12_BadEncodingBeforeAnyWrite ==
  error \in {"LookupError", "UnicodeDecodeError"} =>
    /\ pc = "failed"
    /\ schema = <<>>
    /\ table = <<>>
    /\ flushes = 0

\* The four indexes main may build.
AllIndexes == {"name_idx", "index_idx", "cpu_total_idx", "parent_idx"}

\* C13: after a bulk load that succeeded, whichever of the index statements
\* fail, the name statement and every statement whose column the table has
\* were executed, each executed statement that did not fail built its index,
\* the failures ended nothing, and every entry of the file is in the table.
C13_IndexAttemptsIndependent ==
  pc = "done" =>
    /\ error = ""
    /\ "name_idx" \in attempted
    /\ \A a \in AllIndexes : IndexColumn(a) \in ColumnNames => a \in attempted
    /\ index_errors \subseteq attempted
    /\ indexes = attempted \ index_errors
    /\ pos = Len(rows)
    /\ total = Len(table)
    /\ table = [k \in 1..EntriesRead |-> ExpectedEntry(EntryRow(k))]

\* C13, reached: a load that completed with two index statements failed, a
\* later one built all the same, and its entries in the table.
C13_Witness ==
  /\ pc = "done"
  /\ Cardinality(index_errors) >= 2
  /\ "parent_idx" \in indexes
  /\ table # <<>>

\* C14: for every header the normaliser gives, create_table succeeds and
\* declares len(headers) + 1 columns with names that differ pairwise: the
\* header's columns with their types, in order, then parent_index INTEGER.
C14_CreateTableSucceeds ==
  headers # <<>> =>
    /\ error # "OperationalError"
    /\ Len(schema) = Len(headers) + 1
    /\ DistinctColumns(schema)
    /\ \A i \in 1..Len(headers) :
         schema[i] = <<headers[i], TypeOf(column_types, headers[i])>>
    /\ schema[Len(schema)] = <<cParentIndex, "INTEGER">>

\* C15: a stream that is a header row with a column in it and nothing else
\* (read without error) goes through the load: no flush is made, insert_rows
\* returns 0, the table exists with the declared columns and no entry, and
\* the index statements are executed.
C15_HeaderOnlyStream ==
  (rows = <<>> /\ schema # <<>> /\ error = "") =>
    /\ pc \in {"rows", "index", "done"}
    /\ schema = TableColumns(headers, column_types)
    /\ flushes = 0
    /\ batch = <<>>
    /\ table = <<>>
    /\ pc = "rows" => ENABLED EndOfStream
    /\ pc \in {"index", "done"} => total = 0
    /\ pc = "index" => ENABLED CreateIndexes
    /\ pc = "done" => {"name_idx", "parent_idx"} \subseteq attempted

\* C15, reached: the load of a header-only stream has completed, with an
\* index built on its empty table.
C15_Witness ==
  /\ pc = "done"
  /\ rows = <<>>
  /\ Len(schema) = 3
  /\ table = <<>>
  /\ total = 0
  /\ "parent_idx" \in indexes

\* The table is the first entries, in input order, of the rows read that are
\* not Separator rows; while rows are scanned its length is a multiple of the
\* batch size and the buffer holds fewer entries than the batch size.
C16_State ==
  /\ Len(table) <= EntriesRead
  /\ table = [k \in 1..Len(table) |-> ExpectedEntry(EntryRow(k))]
  /\ pc = "rows" =>
       /\ Len(table) % batch_size = 0
       /\ Len(batch) < batch_size
       /\ count = Len(table)

\* No step changes or removes an entry of the table; the table and the count
\* change only in a step that makes a flush; a flush made before the end of
\* the stream adds batch_size entries.
C16_Step ==
  /\ Len(table') >= Len(table)
  /\ SubSeq(table', 1, Len(table)) = table
  /\ (table' # table \/ count' # count) => flushes' = flushes + 1
  /\ (flushes' # flushes /\ pc' = "rows") =>
       /\ Len(table') = Len(table) + batch_size
       /\ count' = count + batch_size

\* C16: in every state of a load with batch size b >= 1 into a fresh
\* destination the table is a prefix, in input order, of the entries of the
\* rows that are not Separator rows; entries in the table are never changed
\* or removed; the committed count changes only at a flush; every flush
\* before the end of the stream adds exactly b entries, so that between
\* flushes the count is a multiple of b and the buffer holds fewer than b.
C16_BatchedAppendOnly == [](C16_State) /\ [][C16_Step]_vars

\* C16, reached: with batch size 2, one batch committed and one entry
\* waiting in the buffer.
C16_Witness ==
  /\ pc = "rows"
  /\ batch_size = 2
  /\ flushes = 1
  /\ Len(table) = 2
  /\ Len(batch) = 1

\* A step that reads a row sets the hierarchy state by the row's class; any
\* other step, the closing flush among them, leaves it as it is.
C17_Step ==
  IF pc = "rows" /\ pos' = pos + 1
  THEN current_parent_index' =
         CASE classified'[pos'] = "Separator" -> Null
           [] classified'[pos'] = "Parent" ->
                BracketNumber(Aligned(pos')[Len(headers)])
           [] OTHER -> current_parent_index
  ELSE current_parent_index' = current_parent_index

\* C17: during the row scan current_parent_index changes only when a row is
\* classified Separator (set to null) or Parent (set to the bracketed number
\* of its last field); a row classified Child leaves it unchanged, and so
\* does a flush, with the row that filled the batch or at the end.
C17_HierarchyStateFrame == [][C17_Step]_vars

\* C17, reached: a Child row read after the Parent row [1], each of them
\* flushed, with the hierarchy state still 1.
C17_Witness ==
  /\ pc = "rows"
  /\ Len(classified) >= 2
  /\ classified[Len(classified) - 1] = "Parent"
  /\ classified[Len(classified)] = "Child"
  /\ flushes >= 2
  /\ current_parent_index = IntVal(<<"1">>)

=============================================================================
